---- MODULE Spec2Model ----
(***************************************************************************)
(* GitOperations (src/git_operations.py): URL normalisation and the        *)
(* execution of git commands.                                              *)
(*                                                                         *)
(* A Python str is a sequence of one-character strings, so that parsing,   *)
(* stripping, replacing and re-assembling are computed character by        *)
(* character.  Python's None is the value None below, which is no str.     *)
(***************************************************************************)
EXTENDS Naturals, Sequences, FiniteSets, TLC

VARIABLES
    base_path,      \* GitOperations.base_path
    ssh_key_path,   \* GitOperations.ssh_key_path
    environ,        \* os.environ of the process
    fs,             \* the directories that exist: path -> what is there
    request,        \* the URL and credential a caller normalises (SpecUrl)
    op,             \* the call in progress, or the last one: its arguments
    pc,             \* "idle", or "pull" between the two commands of a pull
    calls,          \* the subprocess calls of that call, in order
    result          \* what that call returned or raised

vars == <<base_path, ssh_key_path, environ, fs, request, op, pc, calls, result>>

\* ------------------------------------------------------------------------
\* Python values and str methods
\* ------------------------------------------------------------------------

\* None: a one-element sequence whose element is no character.
None == <<"None">>

\* bool(x) of an Optional[str]: None and '' are false.
Truthy(x) == x # None /\ x # <<>>

Min(S) == CHOOSE x \in S : \A y \in S : x <= y

Max(S) == CHOOSE x \in S : \A y \in S : y <= x

\* s[i:] with a 1-based i
From(s, i) == SubSeq(s, i, Len(s))

\* c in s, for one character c
Contains(s, c) == \E i \in 1..Len(s) : s[i] = c

\* s.startswith(p)
StartsWith(s, p) == Len(s) >= Len(p) /\ SubSeq(s, 1, Len(p)) = p

\* s.find(c, start) for one character c, 1-based; 0 stands for Python's -1
Find(s, c, start) ==
    LET I == {i \in start..Len(s) : s[i] = c}
    IN IF I = {} THEN 0 ELSE Min(I)

\* s.rfind(c) for one character c, 1-based; 0 stands for Python's -1
RFind(s, c) ==
    LET I == {i \in 1..Len(s) : s[i] = c}
    IN IF I = {} THEN 0 ELSE Max(I)

\* s.find(p) for a non-empty str p, 1-based; 0 stands for Python's -1
FindSub(s, p) ==
    LET I == {i \in 1..(Len(s) + 1 - Len(p)) : SubSeq(s, i, i + Len(p) - 1) = p}
    IN IF Len(p) > Len(s) \/ I = {} THEN 0 ELSE Min(I)

\* the last i with s[i:i+len(p)] == p, 0 when there is none
RFindSub(s, p) ==
    LET I == {i \in 1..(Len(s) + 1 - Len(p)) : SubSeq(s, i, i + Len(p) - 1) = p}
    IN IF Len(p) > Len(s) \/ I = {} THEN 0 ELSE Max(I)

\* s.strip(chars): every leading and trailing character that is in chars
Strip(s, chars) ==
    LET keep == {i \in 1..Len(s) : s[i] \notin chars}
    IN IF keep = {} THEN <<>> ELSE SubSeq(s, Min(keep), Max(keep))

\* s.lstrip(chars)
LStrip(s, chars) ==
    LET keep == {i \in 1..Len(s) : s[i] \notin chars}
    IN IF keep = {} THEN <<>> ELSE From(s, Min(keep))

RECURSIVE Replace(_, _, _)
\* s.replace(old, new): every non-overlapping occurrence, left to right
Replace(s, old, new) ==
    LET i == FindSub(s, old)
    IN IF i = 0 THEN s
       ELSE SubSeq(s, 1, i - 1) \o new \o Replace(From(s, i + Len(old)), old, new)

RECURSIVE Split(_, _)
\* s.split(c) for one character c
Split(s, c) ==
    LET i == Find(s, c, 1)
    IN IF i = 0 THEN <<s>>
       ELSE <<SubSeq(s, 1, i - 1)>> \o Split(From(s, i + 1), c)

\* str.lower() of one character, over the upper-case letters the URLs use
LowerChar(c) ==
    CASE c = "H" -> "h" [] c = "T" -> "t" [] c = "P" -> "p" [] c = "S" -> "s"
      [] OTHER -> c

\* s.lower()
Lower(s) == [i \in 1..Len(s) |-> LowerChar(s[i])]

\* ------------------------------------------------------------------------
\* urllib.parse, as parse_git_url uses it
\* ------------------------------------------------------------------------

AsciiLetters ==
    {"a", "b", "c", "d", "e", "f", "g", "h", "i", "j", "k", "l", "m",
     "n", "o", "p", "q", "r", "s", "t", "u", "v", "w", "x", "y", "z",
     "A", "B", "C", "D", "E", "F", "G", "H", "I", "J", "K", "L", "M",
     "N", "O", "P", "Q", "R", "S", "T", "U", "V", "W", "X", "Y", "Z"}

\* urllib.parse.scheme_chars
scheme_chars ==
    AsciiLetters \cup {"0", "1", "2", "3", "4", "5", "6", "7", "8", "9", "+", "-", "."}

Http == <<"h", "t", "t", "p">>

Https == <<"h", "t", "t", "p", "s">>

Ftp == <<"f", "t", "p">>

\* urllib.parse.uses_params, the members the URLs can name
uses_params == {<<>>, Ftp, Http, Https}

\* urllib.parse.uses_netloc, the members the URLs can name
uses_netloc == {<<>>, Ftp, Http, Https}

\* The scheme step of urlsplit: <<scheme, rest>>.
SplitScheme(url) ==
    LET i == Find(url, ":", 1)
    IN IF /\ i > 1
          /\ url[1] \in AsciiLetters
          /\ \A k \in 1..(i - 1) : url[k] \in scheme_chars
       THEN <<Lower(SubSeq(url, 1, i - 1)), From(url, i + 1)>>
       ELSE <<<<>>, url>>

\* the earliest of '/', '?', '#' at or after position 3, else the end of url
NetlocEnd(ds, end) == IF ds = {} THEN end ELSE Min(ds)

\* url[:i-1], url[i-1:] in 1-based terms, from position 3 on
CutNetloc(url, delim) == <<SubSeq(url, 3, delim - 1), From(url, delim)>>

\* urllib.parse._splitnetloc(url, 2): <<netloc, rest>>
splitnetloc(url) ==
    CutNetloc(url, NetlocEnd({Find(url, c, 3) : c \in {"/", "?", "#"}} \ {0},
                             Len(url) + 1))

\* url[:i], url[i+1:] of Python for the 1-based position i of a separator;
\* <<url, ''>> when there is none (i = 0)
CutAt(url, i) ==
    IF i = 0 THEN <<url, <<>>>> ELSE <<SubSeq(url, 1, i - 1), From(url, i + 1)>>

\* url.split(c, 1) when c is in url, else <<url, ''>>
SplitOnce(url, c) == CutAt(url, Find(url, c, 1))

\* SplitResult(scheme, netloc, url, query, fragment); q is <<url, query>>
SplitResult(scheme, netloc, q, fragment) ==
    [scheme |-> scheme, netloc |-> netloc, path |-> q[1], query |-> q[2],
     fragment |-> fragment]

\* urlsplit after the netloc: the fragment is cut off, then the query;
\* f is <<url, fragment>>
SplitQuery(scheme, netloc, f) ==
    SplitResult(scheme, netloc, SplitOnce(f[1], "?"), f[2])

\* urlsplit after the scheme: n is <<netloc, rest>>
SplitFragment(scheme, n) == SplitQuery(scheme, n[1], SplitOnce(n[2], "#"))

\* urlsplit after the scheme: s is <<scheme, rest>>
SplitNetloc(s) ==
    SplitFragment(s[1], IF StartsWith(s[2], <<"/", "/">>)
                        THEN splitnetloc(s[2]) ELSE <<<<>>, s[2]>>)

\* urllib.parse.urlsplit(url): leading blanks stripped, then scheme, netloc,
\* fragment and query cut off in that order.
urlsplit(url) == SplitNetloc(SplitScheme(LStrip(url, {" ", "\t", "\n", "\r"})))

\* urllib.parse._splitparams(url): <<url, params>>
splitparams(url) ==
    CutAt(url, IF Contains(url, "/") THEN Find(url, ";", RFind(url, "/"))
                                     ELSE Find(url, ";", 1))

\* ParseResult(scheme, netloc, url, params, query, fragment); p is <<url, params>>
ParseResult(r, p) ==
    [scheme |-> r.scheme, netloc |-> r.netloc, path |-> p[1], params |-> p[2],
     query |-> r.query, fragment |-> r.fragment]

\* urlparse after urlsplit: the params are cut off the path
SplitParams(r) ==
    ParseResult(r, IF r.scheme \in uses_params /\ Contains(r.path, ";")
                   THEN splitparams(r.path) ELSE <<r.path, <<>>>>)

\* urllib.parse.urlparse(url)
urlparse(url) == SplitParams(urlsplit(url))

\* url of urlunsplit once the netloc is in front of it
WithNetloc(scheme, netloc, url) ==
    IF netloc # <<>> \/ (scheme # <<>> /\ scheme \in uses_netloc
                         /\ ~StartsWith(url, <<"/", "/">>))
    THEN <<"/", "/">> \o netloc
         \o (IF url # <<>> /\ url[1] # "/" THEN <<"/">> \o url ELSE url)
    ELSE url

\* urllib.parse.urlunsplit
urlunsplit(scheme, netloc, url, query, fragment) ==
    (IF scheme # <<>> THEN scheme \o <<":">> ELSE <<>>)
    \o WithNetloc(scheme, netloc, url)
    \o (IF query # <<>> THEN <<"?">> \o query ELSE <<>>)
    \o (IF fragment # <<>> THEN <<"#">> \o fragment ELSE <<>>)

\* urllib.parse.urlunparse
urlunparse(scheme, netloc, url, params, query, fragment) ==
    urlunsplit(scheme, netloc,
               IF params # <<>> THEN url \o <<";">> \o params ELSE url,
               query, fragment)

\* ------------------------------------------------------------------------
\* Results of a call: what it returned or what it raised
\* ------------------------------------------------------------------------

\* No call has finished.  type/prefix are the exception class and the literal
\* part of its message; text is the interpolated part of the message.
NoResult ==
    [status |-> "none", type |-> "", prefix |-> "", text |-> <<>>,
     repo_name |-> None, url |-> None, value |-> None,
     stdout |-> None, stderr |-> None]

\* raise type(f"{prefix}{text}")
Raise(type, prefix, text) ==
    [NoResult EXCEPT !.status = "raise", !.type = type, !.prefix = prefix,
                     !.text = text]

\* return repo_name, url
ReturnPair(repo_name, url) ==
    [NoResult EXCEPT !.status = "return", !.repo_name = repo_name, !.url = url]

\* return value (None for the operations that return nothing)
ReturnValue(v) == [NoResult EXCEPT !.status = "return", !.value = v]

\* return stdout, stderr
ReturnOutput(out, err) ==
    [NoResult EXCEPT !.status = "return", !.stdout = out, !.stderr = err]

\* ------------------------------------------------------------------------
\* GitOperations.parse_git_url
\* ------------------------------------------------------------------------

GitAt == <<"g", "i", "t", "@">>

DotGit == <<".", "g", "i", "t">>

Oauth2 == <<"o", "a", "u", "t", "h", "2", ":">>

\* the guard of the SSH branch
IsSshShaped(url) ==
    /\ Contains(url, "@")
    /\ Contains(url, ":")
    /\ ~StartsWith(url, Http \o <<":", "/", "/">>)
    /\ ~StartsWith(url, Https \o <<":", "/", "/">>)

NoMatch == [matched |-> FALSE, host |-> <<>>, owner |-> <<>>, repo |-> <<>>]

\* (.+)\.git on r3: the longest repo that a ".git" follows, at position k
MatchRepo(host, owner, r3, k) ==
    IF k >= 2
    THEN [matched |-> TRUE, host |-> host, owner |-> owner, repo |-> SubSeq(r3, 1, k - 1)]
    ELSE NoMatch

\* ([^/]+)/ on r2: the owner ends at the first '/', at position s
MatchOwner(host, r2, s) ==
    IF s >= 2
    THEN MatchRepo(host, SubSeq(r2, 1, s - 1), From(r2, s + 1),
                   RFindSub(From(r2, s + 1), DotGit))
    ELSE NoMatch

\* ([^:]+): on r1: the host ends at the first ':', at position c
MatchHost(r1, c) ==
    IF c >= 2
    THEN MatchOwner(SubSeq(r1, 1, c - 1), From(r1, c + 1), Find(From(r1, c + 1), "/", 1))
    ELSE NoMatch

\* re.match(r"git@([^:]+):([^/]+)/(.+)\.git", url): the groups, each group
\* greedy, the match anchored at the start only.  The URLs hold no newline.
SshMatch(url) ==
    IF StartsWith(url, GitAt)
    THEN MatchHost(From(url, Len(GitAt) + 1), Find(From(url, Len(GitAt) + 1), ":", 1))
    ELSE NoMatch

\* repo.strip(".git"): strips the characters '.', 'g', 'i', 't' at both ends
SshRepoName(repo) == Strip(repo, {".", "g", "i", "t"})

\* parsed.path.strip("/").split("/")
PathParts(path) == Split(Strip(path, {"/"}), "/")

\* path_parts[-1].replace(".git", "")
HttpsRepoName(last) == Replace(last, DotGit, <<>>)

\* A slip in TokenNetloc: the token alone, without the oauth2 user.
TokenNetloc_NoUser(netloc, token) ==
    IF ~Contains(netloc, "@") THEN token \o <<"@">> \o netloc ELSE netloc

\* A slip in TokenNetloc: the token goes in whatever the netloc holds.
TokenNetloc_Overwrite(netloc, token) == Oauth2 \o token \o <<"@">> \o netloc

\* the netloc with the token, unless the netloc holds an '@'
TokenNetloc(netloc, token) ==
    IF ~Contains(netloc, "@") THEN Oauth2 \o token \o <<"@">> \o netloc ELSE netloc

\* the URL the HTTPS branch returns
TokenUrl(url, parsed, token) ==
    IF Truthy(token) /\ parsed.scheme \in {Http, Https}
    THEN urlunparse(parsed.scheme, TokenNetloc(parsed.netloc, token), parsed.path,
                    parsed.params, parsed.query, parsed.fragment)
    ELSE url

\* the HTTPS branch after the split of the path
HttpsParts(url, parsed, path_parts, token) ==
    IF Len(path_parts) < 2
    THEN Raise("ValueError", "Invalid Git URL format: ", url)
    ELSE ReturnPair(HttpsRepoName(path_parts[Len(path_parts)]),
                    TokenUrl(url, parsed, token))

\* the HTTPS branch
HttpsBranch(url, parsed, token) ==
    HttpsParts(url, parsed, PathParts(parsed.path), token)

\* the SSH branch: m is the match, or None when the guard fails
SshBranch(url, m, token) ==
    IF IsSshShaped(url) /\ m.matched
    THEN ReturnPair(SshRepoName(m.repo), url)
    ELSE HttpsBranch(url, urlparse(url), token)

parse_git_url(url, token) == SshBranch(url, SshMatch(url), token)

\* ------------------------------------------------------------------------
\* The file system and the process environment
\* ------------------------------------------------------------------------

\* s.rstrip("/") of a path that is not the root
PathKey(p) ==
    LET keep == {i \in 1..Len(p) : p[i] # "/"}
    IN IF keep = {} THEN p ELSE SubSeq(p, 1, Max(keep))

\* A slip in exists: the check that never finds anything.
exists_Never(fsys, p) == FALSE

\* os.path.exists(p)
exists(fsys, p) == PathKey(p) \in DOMAIN fsys

\* os.path.join(a, b)
join(a, b) ==
    IF b # <<>> /\ b[1] = "/" THEN b
    ELSE IF a = <<>> \/ a[Len(a)] = "/" THEN a \o b
    ELSE a \o <<"/">> \o b

\* fsys with a directory of the given kind at p
WithDir(fsys, p, kind) ==
    [q \in DOMAIN fsys \cup {PathKey(p)} |-> IF q = PathKey(p) THEN kind ELSE fsys[q]]

\* d.update(e) of two dicts
Update(d, e) ==
    [k \in DOMAIN d \cup DOMAIN e |-> IF k \in DOMAIN e THEN e[k] ELSE d[k]]

EmptyDict == [k \in {} |-> <<>>]

\* An Optional[Dict[str, str]] argument: None, or a dict.
NoEnv == [given |-> FALSE, dict |-> EmptyDict]

\* bool(env): None and {} are false
DictTruthy(env) == env.given /\ DOMAIN env.dict # {}

\* f'ssh -i {ssh_key_path} -o StrictHostKeyChecking=no'
SshCommand(key) ==
    <<"s", "s", "h", " ", "-", "i", " ">> \o key
    \o <<" ", "-", "o", " ", "S", "t", "r", "i", "c", "t", "H", "o", "s", "t",
         "K", "e", "y", "C", "h", "e", "c", "k", "i", "n", "g", "=", "n", "o">>

\* process_env once env is in it: the key's GIT_SSH_COMMAND goes on top
WithSshKey(e, key) ==
    IF Truthy(key)
    THEN Update(e, [k \in {"GIT_SSH_COMMAND"} |-> SshCommand(key)])
    ELSE e

\* A slip in ProcessEnv: the key's GIT_SSH_COMMAND is set before env is
\* applied, so that env overrides it.
ProcessEnv_KeyFirst(ambient, env, key) ==
    IF DictTruthy(env) THEN Update(WithSshKey(ambient, key), env.dict)
    ELSE WithSshKey(ambient, key)

\* process_env of _run_command: os.environ.copy(), then env, then the key
ProcessEnv(ambient, env, key) ==
    WithSshKey(IF DictTruthy(env) THEN Update(ambient, env.dict) ELSE ambient, key)

\* ------------------------------------------------------------------------
\* GitOperations._run_command
\* ------------------------------------------------------------------------

Fatal == <<"f", "a", "t", "a", "l">>

MainLine == <<"m", "a", "i", "n", "\n">>

NoSuchFile ==
    <<"N", "o", " ", "s", "u", "c", "h", " ", "f", "i", "l", "e", " ", "o", "r",
      " ", "d", "i", "r", "e", "c", "t", "o", "r", "y">>

Preexec == <<"p", "r", "e", "e", "x", "e", "c">>

\* What Popen and communicate() can do: the process exits with a status and
\* its two streams; Popen raises OSError (no binary, no cwd, no permission);
\* or subprocess raises a SubprocessError.
Exit(code, out, err) ==
    [kind |-> "exit", returncode |-> code, stdout |-> out, stderr |-> err,
     errtext |-> <<>>]

Failure(kind, text) ==
    [kind |-> kind, returncode |-> 0, stdout |-> <<>>, stderr |-> <<>>,
     errtext |-> text]

Outcomes ==
    {Exit(0, MainLine, <<>>), Exit(1, <<>>, Fatal),
     Failure("OSError", NoSuchFile), Failure("SubprocessError", Preexec)}

\* Popen(command, cwd=cwd, ...): a cwd that does not exist is an OSError
SpawnOutcomes(fsys, cwd) ==
    IF cwd # None /\ ~exists(fsys, cwd)
    THEN {Failure("OSError", NoSuchFile)}
    ELSE Outcomes

\* A slip in RunResult: the exit status is not looked at.
RunResult_IgnoresExit(outcome) ==
    CASE outcome.kind = "exit" -> ReturnOutput(outcome.stdout, outcome.stderr)
      [] outcome.kind = "SubprocessError" ->
            Raise("Exception", "Failed to execute command: ", outcome.errtext)
      [] OTHER -> Raise(outcome.kind, "", outcome.errtext)

\* The try block after Popen: the exit status decides; a SubprocessError is
\* wrapped; any other exception (OSError) leaves _run_command as it is.
RunResult(outcome) ==
    CASE outcome.kind = "exit" /\ outcome.returncode = 0 ->
            ReturnOutput(outcome.stdout, outcome.stderr)
      [] outcome.kind = "exit" /\ outcome.returncode # 0 ->
            Raise("Exception", "Command failed with error: ", outcome.stderr)
      [] outcome.kind = "SubprocessError" ->
            Raise("Exception", "Failed to execute command: ", outcome.errtext)
      [] OTHER -> Raise(outcome.kind, "", outcome.errtext)

\* One _run_command: the subprocess call it makes and what it returns or raises
run_command(command, cwd, env, outcome) ==
    [call |-> [command |-> command, cwd |-> cwd,
               env |-> ProcessEnv(environ, env, ssh_key_path),
               outcome |-> outcome],
     result |-> RunResult(outcome)]

\* ------------------------------------------------------------------------
\* The git commands
\* ------------------------------------------------------------------------

Git == <<"g", "i", "t">>

CloneWord == <<"c", "l", "o", "n", "e">>

DashB == <<"-", "b">>

SingleBranch ==
    <<"-", "-", "s", "i", "n", "g", "l", "e", "-", "b", "r", "a", "n", "c", "h">>

Checkout == <<"c", "h", "e", "c", "k", "o", "u", "t">>

PullWord == <<"p", "u", "l", "l">>

RevParse == <<"r", "e", "v", "-", "p", "a", "r", "s", "e">>

AbbrevRef == <<"-", "-", "a", "b", "b", "r", "e", "v", "-", "r", "e", "f">>

HeadRef == <<"H", "E", "A", "D">>

Remote == <<"r", "e", "m", "o", "t", "e">>

SetUrl == <<"s", "e", "t", "-", "u", "r", "l">>

Origin == <<"o", "r", "i", "g", "i", "n">>

Version == <<"-", "-", "v", "e", "r", "s", "i", "o", "n">>

\* A slip in CloneCommand: --single-branch is left out.
CloneCommand_NoSingleBranch(branch, normalized_url, repo_path) ==
    <<Git, CloneWord>>
    \o (IF Truthy(branch) THEN <<DashB, branch>> ELSE <<>>)
    \o <<normalized_url, repo_path>>

\* command of clone_repository
CloneCommand(branch, normalized_url, repo_path) ==
    <<Git, CloneWord>>
    \o (IF Truthy(branch) THEN <<DashB, branch>> ELSE <<>>)
    \o <<SingleBranch, normalized_url, repo_path>>

CheckoutCommand(branch) == <<Git, Checkout, branch>>

PullCommand == <<Git, PullWord>>

RevParseCommand == <<Git, RevParse, AbbrevRef, HeadRef>>

SetUrlCommand(normalized_url) == <<Git, Remote, SetUrl, Origin, normalized_url>>

\* ------------------------------------------------------------------------
\* The operations
\* ------------------------------------------------------------------------

Op(name, url, token, branch, repo_path, env) ==
    [name |-> name, url |-> url, token |-> token, branch |-> branch,
     repo_path |-> repo_path, env |-> env]

\* What a finished _run_command gives its caller: its exception, or value.
Returned(run, value) ==
    IF run.result.status = "raise" THEN run.result ELSE ReturnValue(value)

\* git clone: a repository on exit 0; after a failure git may leave a partial
\* directory behind; nothing when the process never ran.
CloneEffect(fsys, repo_path, outcome, leaves) ==
    IF outcome.kind = "exit" /\ outcome.returncode = 0
    THEN WithDir(fsys, repo_path, "repo")
    ELSE IF outcome.kind = "exit" /\ leaves
    THEN WithDir(fsys, repo_path, "partial")
    ELSE fsys

ParseGitUrl(url, token) ==
    /\ pc = "idle"
    /\ op' = Op("parse_git_url", url, token, None, None, NoEnv)
    /\ calls' = <<>>
    /\ result' = parse_git_url(url, token)
    /\ UNCHANGED <<base_path, ssh_key_path, environ, fs, request, pc>>

\* The caller of one _run_command sees its call, and its exception or value.
Ran(run, value) ==
    /\ calls' = <<run.call>>
    /\ result' = Returned(run, value)

\* clone_repository from the existence check on
CloneInto(branch, normalized_url, repo_path) ==
    IF exists(fs, repo_path)
    THEN /\ result' = Raise("ValueError",
                            "Repository directory already exists: ", repo_path)
         /\ calls' = <<>>
         /\ fs' = fs
    ELSE \E outcome \in SpawnOutcomes(fs, None) :
         \E leaves \in (IF outcome.returncode # 0 THEN BOOLEAN ELSE {FALSE}) :
            /\ Ran(run_command(CloneCommand(branch, normalized_url, repo_path),
                               None, NoEnv, outcome), repo_path)
            /\ fs' = CloneEffect(fs, repo_path, outcome, leaves)

\* clone_repository after parse_git_url: p is what it returned or raised
CloneParsed(branch, p) ==
    IF p.status = "raise"
    THEN result' = p /\ calls' = <<>> /\ fs' = fs
    ELSE CloneInto(branch, p.url, join(base_path, p.repo_name))

CloneRepository(url, branch, token) ==
    /\ pc = "idle"
    /\ op' = Op("clone_repository", url, token, branch, None, NoEnv)
    /\ CloneParsed(branch, parse_git_url(url, token))
    /\ UNCHANGED <<base_path, ssh_key_path, environ, request, pc>>

\* pull_repository after its checkout: an exception ends the call
AfterCheckout(run) ==
    /\ calls' = <<run.call>>
    /\ IF run.result.status = "raise"
       THEN result' = run.result /\ pc' = "idle"
       ELSE result' = NoResult /\ pc' = "pull"

\* pull_repository up to the end of its first command
PullRepository(repo_path, branch) ==
    /\ pc = "idle"
    /\ op' = Op("pull_repository", None, None, branch, repo_path, NoEnv)
    /\ \E outcome \in SpawnOutcomes(fs, repo_path) :
          IF Truthy(branch)
          THEN AfterCheckout(run_command(CheckoutCommand(branch), repo_path,
                                         NoEnv, outcome))
          ELSE /\ Ran(run_command(PullCommand, repo_path, NoEnv, outcome), None)
               /\ pc' = "idle"
    /\ UNCHANGED <<base_path, ssh_key_path, environ, fs, request>>

\* the git pull of a pull_repository whose checkout succeeded
AfterPull(run) ==
    /\ calls' = Append(calls, run.call)
    /\ result' = Returned(run, None)

\* pull_repository after a checkout that succeeded: git pull
PullAfterCheckout ==
    /\ pc = "pull"
    /\ \E outcome \in SpawnOutcomes(fs, op.repo_path) :
          AfterPull(run_command(PullCommand, op.repo_path, NoEnv, outcome))
    /\ pc' = "idle"
    /\ UNCHANGED <<base_path, ssh_key_path, environ, fs, request, op>>

GetCurrentBranch(repo_path) ==
    /\ pc = "idle"
    /\ op' = Op("get_current_branch", None, None, None, repo_path, NoEnv)
    /\ \E outcome \in SpawnOutcomes(fs, repo_path) :
          Ran(run_command(RevParseCommand, repo_path, NoEnv, outcome),
              Strip(outcome.stdout, {" ", "\t", "\n", "\r"}))
    /\ UNCHANGED <<base_path, ssh_key_path, environ, fs, request, pc>>

\* set_remote_url after parse_git_url: p is what it returned or raised
SetRemoteParsed(repo_path, p) ==
    IF p.status = "raise"
    THEN result' = p /\ calls' = <<>>
    ELSE \E outcome \in SpawnOutcomes(fs, repo_path) :
            Ran(run_command(SetUrlCommand(p.url), repo_path, NoEnv, outcome), None)

SetRemoteUrl(repo_path, url, token) ==
    /\ pc = "idle"
    /\ op' = Op("set_remote_url", url, token, None, repo_path, NoEnv)
    /\ SetRemoteParsed(repo_path, parse_git_url(url, token))
    /\ UNCHANGED <<base_path, ssh_key_path, environ, fs, request, pc>>

\* What the caller of _run_command itself sees
RanDirectly(run) ==
    /\ calls' = <<run.call>>
    /\ result' = run.result

\* _run_command called with an environment of the caller's
RunCommand(command, cwd, env) ==
    /\ pc = "idle"
    /\ op' = Op("_run_command", None, None, None, cwd, env)
    /\ \E outcome \in SpawnOutcomes(fs, cwd) :
          RanDirectly(run_command(command, cwd, env, outcome))
    /\ UNCHANGED <<base_path, ssh_key_path, environ, fs, request, pc>>

\* The caller's cleanup of a repository directory (shutil.rmtree)
Cleanup(repo_path) ==
    /\ pc = "idle"
    /\ repo_path # base_path
    /\ exists(fs, repo_path)
    /\ fs' = [q \in DOMAIN fs \ {PathKey(repo_path)} |-> fs[q]]
    /\ op' = Op("cleanup", None, None, None, repo_path, NoEnv)
    /\ calls' = <<>>
    /\ result' = ReturnValue(None)
    /\ UNCHANGED <<base_path, ssh_key_path, environ, request, pc>>

\* ------------------------------------------------------------------------
\* The inputs
\* ------------------------------------------------------------------------

\* A repository name is made of at most MaxNameParts of these pieces.
MaxNameParts == 2

NamePieces == {<<"w">>, DotGit, Git}

RECURSIVE NamesUpTo(_)
NamesUpTo(n) ==
    IF n = 0 THEN {<<>>}
    ELSE LET shorter == NamesUpTo(n - 1)
         IN shorter \cup {a \o b : a \in shorter, b \in NamePieces}

RepoNames == NamesUpTo(MaxNameParts) \ {<<>>}

\* git@h:o/<repo>.git
SshUrl(repo) == <<"g", "i", "t", "@", "h", ":", "o", "/">> \o repo \o DotGit

\* https://h/o/<last segment>
HttpsUrl(last) ==
    <<"h", "t", "t", "p", "s", ":", "/", "/", "h", "/", "o", "/">> \o last

Schemes == {Https, Http, <<"H", "T", "T", "P", "S">>, Ftp}

Netlocs == {<<"h">>, <<"h", ":", "8">>, <<"u", "@", "h">>}

Paths ==
    {<<>>, <<"/", "o">>, <<"/", "o", "/", "w", ".", "g", "i", "t">>,
     <<"/", "o", "/", "w", "/">>}

Tails == {<<>>, <<"?">>, <<"?", "q">>, <<"#", "f">>, <<";", "p", "?", "q", "#", "f">>}

\* <scheme>://<netloc><path><tail>
ShapedUrls ==
    {s \o <<":", "/", "/">> \o n \o p \o t :
        s \in Schemes, n \in Netlocs, p \in Paths, t \in Tails}

WidgetsSsh ==
    <<"g", "i", "t", "@", "g", "i", "t", "h", "u", "b", ".", "c", "o", "m", ":",
      "a", "c", "m", "e", "/", "w", "i", "d", "g", "e", "t", "s", ".", "g", "i", "t">>

WidgetsHttps ==
    <<"h", "t", "t", "p", "s", ":", "/", "/", "g", "i", "t", "h", "u", "b", ".",
      "c", "o", "m", "/", "a", "c", "m", "e", "/", "w", "i", "d", "g", "e", "t",
      "s", ".", "g", "i", "t">>

GithubOrg ==
    <<"h", "t", "t", "p", "s", ":", "/", "/", "g", "i", "t", "h", "u", "b", ".",
      "c", "o", "m", "/", "o", "r", "g">>

MyGitCollection ==
    <<"h", "t", "t", "p", "s", ":", "/", "/", "e", "x", "a", "m", "p", "l", "e",
      ".", "c", "o", "m", "/", "a", "/", "m", "y", ".", "g", "i", "t", ".", "c",
      "o", "l", "l", "e", "c", "t", "i", "o", "n">>

\* github_url of src/toast/app.py
SandboxTestToast ==
    <<"g", "i", "t", "@", "g", "i", "t", "h", "u", "b", ".", "c", "o", "m", ":",
      "l", "e", "e", "a", "a", "r", "o", "n", "6", "2", "9", "/", "s", "a", "n",
      "d", "b", "o", "x", "-", "t", "e", "s", "t", "-", "t", "o", "a", "s", "t",
      ".", "g", "i", "t">>

\* neither shape: no owner before the repository; a user that is not git
OtherUrls ==
    {<<"g", "i", "t", "@", "h", ":", "w", ".", "g", "i", "t">>,
     <<"u", "@", "h", ":", "o", "/", "w", ".", "g", "i", "t">>,
     <<"h", "/", "o", "/", "w">>}

Urls ==
    {SshUrl(r) : r \in RepoNames} \cup {HttpsUrl(r) : r \in RepoNames}
    \cup ShapedUrls \cup OtherUrls
    \cup {WidgetsSsh, WidgetsHttps, GithubOrg, MyGitCollection, SandboxTestToast}

Tok == <<"t", "o", "k">>

\* a credential that holds a URL delimiter
Slashed == <<"s", "/">>

Tokens == {None, <<>>, <<"t">>, Tok, Slashed}

Main == <<"m", "a", "i", "n">>

Branches == {None, <<>>, Main}

TmpX == <<"/", "t", "m", "p", "/", "x">>

KeyPath == <<"~", "/", ".", "s", "s", "h", "/", "i", "d", "_", "r", "s", "a">>

Nowhere == <<"/", "n", "o", "w", "h", "e", "r", "e">>

\* The URLs and credentials of the calls of Spec.
OpUrls == {WidgetsSsh, WidgetsHttps, HttpsUrl(<<"w">> \o DotGit), GithubOrg}

OpTokens == {None, Tok}

\* Ambient environments: with and without a GIT_SSH_COMMAND of the user's.
AmbientPlain == [k \in {"PATH"} |-> <<"/", "b", "i", "n">>]

AmbientSsh ==
    [k \in {"PATH", "GIT_SSH_COMMAND"} |->
        IF k = "PATH" THEN <<"/", "b", "i", "n">> ELSE <<"s", "s", "h", " ", "-", "v">>]

Environs == {AmbientPlain, AmbientSsh}

\* The env arguments of a direct _run_command.
EnvArgs ==
    {NoEnv,
     [given |-> TRUE, dict |-> EmptyDict],
     [given |-> TRUE, dict |-> [k \in {"GIT_SSH_COMMAND"} |-> <<"s", "s", "h", " ", "-", "4">>]],
     [given |-> TRUE, dict |-> [k \in {"LANG"} |-> <<"C">>]]}

\* The repository paths a caller passes: the directories under base_path, and
\* one that does not exist.
RepoPaths == (DOMAIN fs \ {base_path}) \cup {Nowhere}

\* ------------------------------------------------------------------------
\* The specifications
\* ------------------------------------------------------------------------

\* GitOperations(base_path, ssh_key_path): the fields are set and base_path
\* is created.
Constructed(base, key) ==
    /\ base_path = base
    /\ ssh_key_path = key
    /\ fs = [q \in {base} |-> "dir"]
    /\ op = Op("__init__", None, None, None, None, NoEnv)
    /\ pc = "idle"
    /\ calls = <<>>
    /\ result = NoResult

\* The calls a caller can make, with arguments from the given sets.
Operations(urls, tokens, branches, envs) ==
    \/ \E url \in urls, token \in tokens : ParseGitUrl(url, token)
    \/ \E url \in urls, branch \in branches, token \in tokens :
          CloneRepository(url, branch, token)
    \/ \E repo_path \in RepoPaths, branch \in branches :
          PullRepository(repo_path, branch)
    \/ PullAfterCheckout
    \/ \E repo_path \in RepoPaths : GetCurrentBranch(repo_path)
    \/ \E repo_path \in RepoPaths, url \in urls, token \in tokens :
          SetRemoteUrl(repo_path, url, token)
    \/ \E cwd \in {None, Nowhere}, env \in envs : RunCommand(<<Git, Version>>, cwd, env)
    \/ \E repo_path \in RepoPaths : Cleanup(repo_path)

\* The executor of src/toast/app.py (a key path is configured), in an
\* environment that sets a GIT_SSH_COMMAND of its own.
Init ==
    /\ Constructed(TmpX, KeyPath)
    /\ environ = AmbientSsh
    /\ request = [url |-> None, token |-> None]

Next == Operations(OpUrls, OpTokens, Branches, {NoEnv})

Spec == Init /\ [][Next]_vars

\* Every executor and every environment, with one URL.
EnvInit ==
    /\ \E key \in {None, <<>>, KeyPath} : Constructed(TmpX, key)
    /\ environ \in Environs
    /\ request = [url |-> None, token |-> None]

EnvNext == Operations({WidgetsSsh}, {None}, {None, Main}, EnvArgs)

SpecEnv == EnvInit /\ [][EnvNext]_vars

\* The caller normalises a returned URL again while it holds at most MaxAts
\* '@' (each credential that is embedded adds one).
MaxAts == 1

Ats(url) == Cardinality({i \in 1..Len(url) : url[i] = "@"})

\* One caller with one URL and one credential: it normalises the URL,
\* normalises the URL it got back under another credential, sets it as the
\* remote of base_path, and clones it.
UrlInit ==
    /\ Constructed(TmpX, None)
    /\ environ = AmbientPlain
    /\ request \in {[url |-> u, token |-> t] : u \in Urls, t \in Tokens}

UrlNext ==
    \/ ParseGitUrl(request.url, request.token)
    \/ /\ op.name = "parse_git_url"
       /\ result.status = "return"
       /\ Ats(result.url) <= MaxAts
       /\ \E token \in Tokens : ParseGitUrl(result.url, token)
    \/ SetRemoteUrl(base_path, request.url, request.token)
    \/ CloneRepository(request.url, None, request.token)

SpecUrl == UrlInit /\ [][UrlNext]_vars

\* ------------------------------------------------------------------------
\* What the claims speak of
\* ------------------------------------------------------------------------

\* An argument that is given: not None, and not the empty string.
Given(x) == x # None /\ x # <<>>

\* s.count(c) for one character c
Count(s, c) == Cardinality({i \in 1..Len(s) : s[i] = c})

EndsWith(s, p) == Len(s) >= Len(p) /\ SubSeq(s, Len(s) - Len(p) + 1, Len(s)) = p

\* git@host:owner/repo.git with a host, an owner and a repo, one ':' and one '/'
IsSshForm(url) ==
    /\ StartsWith(url, GitAt)
    /\ EndsWith(url, DotGit)
    /\ Count(url, ":") = 1
    /\ Count(url, "/") = 1
    /\ Find(url, ":", 1) > Len(GitAt) + 1
    /\ Find(url, "/", 1) > Find(url, ":", 1) + 1
    /\ Len(url) - Len(DotGit) > Find(url, "/", 1)

\* the text between the last '/' and the trailing ".git"
RepoOfSshForm(url) == SubSeq(url, RFind(url, "/") + 1, Len(url) - Len(DotGit))

\* http://... or https://..., in any letter case
IsHttpForm(url) ==
    \/ StartsWith(Lower(url), Http \o <<":", "/", "/">>)
    \/ StartsWith(Lower(url), Https \o <<":", "/", "/">>)

\* the non-empty segments of the path of url
Segments(url) == SelectSeq(Split(urlparse(url).path, "/"), LAMBDA x : x # <<>>)

\* seg without a trailing ".git", and nothing else removed
WithoutDotGitSuffix(seg) ==
    IF EndsWith(seg, DotGit) THEN SubSeq(seg, 1, Len(seg) - Len(DotGit)) ELSE seg

ParseReturned == op.name = "parse_git_url" /\ result.status = "return"

InvalidUrlRaised ==
    /\ result.status = "raise"
    /\ result.type = "ValueError"
    /\ result.prefix = "Invalid Git URL format: "
    /\ result.text = op.url

AlreadyExists == "Repository directory already exists: "

\* ------------------------------------------------------------------------
\* C1
\* ------------------------------------------------------------------------

\* C1: for every URL git@host:owner/repo.git and every credential argument,
\* parse_git_url returns repository_name = repo and the URL unchanged.
\* Violated: strip(".git") also eats the letters g, i, t and the dots at both
\* ends of repo (toast -> toas, git -> '').
C1_SshNameAndUrl ==
    (op.name = "parse_git_url" /\ IsSshForm(op.url))
        => /\ result.status = "return"
           /\ result.repo_name = RepoOfSshForm(op.url)
           /\ result.url = op.url

\* ------------------------------------------------------------------------
\* C2
\* ------------------------------------------------------------------------

\* the URL the finished call handed on: the one parse_git_url returned, or the
\* URL argument of the git command of set_remote_url and clone_repository
UrlHandedOn ==
    IF op.name = "parse_git_url" THEN result.url
    ELSE IF op.name = "set_remote_url" THEN calls[1].command[5]
    ELSE calls[1].command[Len(calls[1].command) - 1]

WidgetsWithTok ==
    <<"h", "t", "t", "p", "s", ":", "/", "/", "o", "a", "u", "t", "h", "2", ":",
      "t", "o", "k", "@", "g", "i", "t", "h", "u", "b", ".", "c", "o", "m", "/",
      "a", "c", "m", "e", "/", "w", "i", "d", "g", "e", "t", "s", ".", "g", "i", "t">>

\* the text a URL of the given scheme has before its host once T is embedded
CredentialPrefix(scheme, token) ==
    scheme \o <<":", "/", "/">> \o Oauth2 \o token \o <<"@">>

\* url, which starts with CredentialPrefix(scheme, token), without oauth2:T@
WithoutCredential(url, scheme, token) ==
    scheme \o <<":", "/", "/">>
        \o From(url, Len(CredentialPrefix(scheme, token)) + 1)

\* a credential that the URL syntax takes as part of a network-location
IsUserinfoSafe(token) == \A i \in 1..Len(token) : token[i] \notin {"/", "?", "#"}

Renormalizes ==
    /\ ParseReturned
    /\ op'.name = "parse_git_url"
    /\ op'.url = result.url
    /\ result'.status = "return"

\* C3 as stated: an http(s) URL with an '@' in its network-location is
\* returned untouched for any credential argument, and for any URL and any
\* credential arguments T1, T2 normalising the output of a normalisation
\* returns it unchanged.  Violated: with a credential the URL is re-assembled
\* (https://u@h/o/w.git? loses its '?'), and a URL normalised without a
\* credential takes the credential of the second call.
C3_UntouchedAndIdempotent ==
    [][ (op'.name = "parse_git_url" /\ result'.status = "return")
          => /\ (IsHttpForm(op'.url) /\ Contains(urlparse(op'.url).netloc, "@"))
                  => result'.url = op'.url
             /\ Renormalizes => result'.url = result.url ]_vars

\* C3 as amended: an http(s) URL with an '@' in its network-location keeps,
\* for any credential argument, its network-location and every other
\* component (the text is re-assembled only when a credential is given, and
\* is the input itself otherwise); and once a credential T1 free of the URL
\* delimiters '/', '?' and '#' was given, normalising the output again under
\* any credential argument returns it unchanged.
C3_ComponentsKeptAndIdempotent ==
    [][ (op'.name = "parse_git_url" /\ result'.status = "return")
          => /\ (IsHttpForm(op'.url) /\ Contains(urlparse(op'.url).netloc, "@"))
                  => /\ urlparse(result'.url) = urlparse(op'.url)
                     /\ Count(urlparse(result'.url).netloc, "@")
                          = Count(urlparse(op'.url).netloc, "@")
                     /\ ~Given(op'.token) => result'.url = op'.url
             /\ (Renormalizes /\ Given(op.token) /\ IsUserinfoSafe(op.token))
                  => result'.url = result.url ]_vars

\* C3 witness: the output of a normalisation that added a credential has been
\* normalised again under another credential, and came back as it was.
C3_Witness ==
    /\ ParseReturned
    /\ IsHttpForm(op.url)
    /\ StartsWith(urlparse(op.url).netloc, Oauth2 \o <<"t", "@">>)
    /\ op.token = Tok
    /\ ~Contains(urlparse(request.url).netloc, "@")
    /\ result.url = op.url

\* ------------------------------------------------------------------------
\* C4
\* ------------------------------------------------------------------------

\* C4: for an http(s) URL the repository name is the final path segment with
\* only a trailing ".git" removed; my.git.collection stays my.git.collection.
\* Violated: replace(".git", "") removes every ".git" of the segment.
C4_OnlySuffixRemoved ==
    (ParseReturned /\ IsHttpForm(op.url))
        => result.repo_name
             = WithoutDotGitSuffix(Segments(op.url)[Len(Segments(op.url))])

\* ------------------------------------------------------------------------
\* C5
\* ------------------------------------------------------------------------

\* C5: parse_git_url either raises the invalid-URL error (so for an http(s)
\* URL with fewer than two path segments) or returns a repository name that
\* is not empty, and clone_repository and set_remote_url raise that error
\* before any subprocess.  Violated: the names git (SSH) and .git (HTTPS)
\* come back empty.
C5_NameNeverEmpty ==
    /\ op.name = "parse_git_url"
        => \/ InvalidUrlRaised
           \/ result.status = "return" /\ result.repo_name # <<>>
    /\ (op.name = "parse_git_url" /\ IsHttpForm(op.url) /\ Len(Segments(op.url)) < 2)
        => InvalidUrlRaised
    /\ (op.name \in {"clone_repository", "set_remote_url"} /\ InvalidUrlRaised)
        => calls = <<>>

\* ------------------------------------------------------------------------
\* C6
\* ------------------------------------------------------------------------

\* the directory clone_repository clones url into
CloneTarget(url, token) == join(base_path, parse_git_url(url, token).repo_name)

\* C6: whenever base_path/repository_name exists when clone_repository is
\* called, the call raises the already-exists error for that path, makes no
\* subprocess call and leaves the file system as it was.
C6_ExistingTargetRefused ==
    [][ ( /\ op'.name = "clone_repository"
          /\ parse_git_url(op'.url, op'.token).status = "return"
          /\ PathKey(CloneTarget(op'.url, op'.token)) \in DOMAIN fs )
          => /\ result'.status = "raise"
             /\ result'.type = "ValueError"
             /\ result'.prefix = AlreadyExists
             /\ result'.text = CloneTarget(op'.url, op'.token)
             /\ calls' = <<>>
             /\ fs' = fs ]_vars

\* C6 witness: a clone was refused because of the directory that a failed
\* clone had left behind.
C6_Witness ==
    /\ op.name = "clone_repository"
    /\ result.status = "raise"
    /\ result.prefix = AlreadyExists
    /\ calls = <<>>
    /\ PathKey(result.text) \in DOMAIN fs
    /\ fs[PathKey(result.text)] = "partial"

\* ------------------------------------------------------------------------
\* C7
\* ------------------------------------------------------------------------

TmpXWidgets ==
    <<"/", "t", "m", "p", "/", "x", "/", "w", "i", "d", "g", "e", "t", "s">>

\* the argument list the claim gives for a clone
ClaimedCloneArgs(branch, url, path) ==
    IF Given(branch)
    THEN <<Git, CloneWord, DashB, branch, SingleBranch, url, path>>
    ELSE <<Git, CloneWord, SingleBranch, url, path>>

\* C7: when the target does not exist, clone_repository makes exactly one
\* subprocess call, git clone [-b <branch>] --single-branch <normalized url>
\* <base_path/repository_name>, without a working directory, and on exit 0
\* returns base_path/repository_name; the widgets URL with branch main under
\* /tmp/x runs git clone -b main --single-branch
\* git@github.com:acme/widgets.git /tmp/x/widgets and returns /tmp/x/widgets.
C7_CloneCommand ==
    [][ ( /\ op'.name = "clone_repository"
          /\ parse_git_url(op'.url, op'.token).status = "return"
          /\ PathKey(CloneTarget(op'.url, op'.token)) \notin DOMAIN fs )
          => /\ Len(calls') = 1
             /\ calls'[1].command
                  = ClaimedCloneArgs(op'.branch,
                                     parse_git_url(op'.url, op'.token).url,
                                     base_path \o <<"/">>
                                       \o parse_git_url(op'.url, op'.token).repo_name)
             /\ calls'[1].cwd = None
             /\ (calls'[1].outcome.kind = "exit" /\ calls'[1].outcome.returncode = 0)
                  => /\ result'.status = "return"
                     /\ result'.value = CloneTarget(op'.url, op'.token)
             /\ (op'.url = WidgetsSsh /\ op'.branch = Main /\ base_path = TmpX)
                  => /\ calls'[1].command
                          = <<Git, CloneWord, DashB, Main, SingleBranch,
                              WidgetsSsh, TmpXWidgets>>
                     /\ result'.status = "return" => result'.value = TmpXWidgets ]_vars

\* C7 witness: the clone of the widgets URL with branch main has returned
\* /tmp/x/widgets.
C7_Witness ==
    /\ op.name = "clone_repository"
    /\ op.url = WidgetsSsh
    /\ op.branch = Main
    /\ Len(calls) = 1
    /\ result.status = "return"
    /\ result.value = TmpXWidgets

\* ------------------------------------------------------------------------
\* C8
\* ------------------------------------------------------------------------

\* C8: a run of a command ends in one of two ways: exit 0 returns the captured
\* stdout and stderr; a non-zero exit raises the command-execution error with
\* the captured stderr text, and a failure to spawn the process raises that
\* same kind of error with the description of the OS error.  Violated: an
\* OSError of Popen is no SubprocessError, and leaves _run_command unwrapped.
C8_TwoOutcomes ==
    (op.name = "_run_command" /\ Len(calls) = 1)
        => LET outcome == calls[1].outcome
           IN IF outcome.kind = "exit" /\ outcome.returncode = 0
              THEN /\ result.status = "return"
                   /\ result.stdout = outcome.stdout
                   /\ result.stderr = outcome.stderr
              ELSE /\ result.status = "raise"
                   /\ result.type = "Exception"
                   /\ result.text = (IF outcome.kind = "exit" THEN outcome.stderr
                                                             ELSE outcome.errtext)

\* ------------------------------------------------------------------------
\* C9
\* ------------------------------------------------------------------------

ExitedZero(call) == call.outcome.kind = "exit" /\ call.outcome.returncode = 0

\* the text of the error a failed call carries
ErrorText(call) ==
    IF call.outcome.kind = "exit" THEN call.outcome.stderr ELSE call.outcome.errtext

\* C9: pull_repository with a branch runs git checkout <branch> in repo_path
\* first, and git pull in repo_path only after the checkout exited with 0; a
\* failed checkout is raised to the caller, git pull is not run and nothing is
\* run twice.  Without a branch the one command is git pull.
C9_CheckoutThenPull ==
    op.name = "pull_repository"
        => /\ \A i \in 1..Len(calls) : calls[i].cwd = op.repo_path
           /\ IF Given(op.branch)
              THEN /\ Len(calls) \in {1, 2}
                   /\ calls[1].command = <<Git, Checkout, op.branch>>
                   /\ Len(calls) = 2
                        => ExitedZero(calls[1]) /\ calls[2].command = <<Git, PullWord>>
                   /\ ~ExitedZero(calls[1])
                        => /\ Len(calls) = 1
                           /\ pc = "idle"
                           /\ result.status = "raise"
                           /\ result.text = ErrorText(calls[1])
                   /\ (ExitedZero(calls[1]) /\ Len(calls) = 1)
                        => pc = "pull" /\ result.status = "none"
              ELSE /\ Len(calls) = 1
                   /\ calls[1].command = <<Git, PullWord>>
                   /\ pc = "idle"

\* C9 witness: a pull with a branch has run its checkout and then its pull.
C9_Witness ==
    /\ op.name = "pull_repository"
    /\ Given(op.branch)
    /\ Len(calls) = 2
    /\ ExitedZero(calls[1])
    /\ pc = "idle"

\* ------------------------------------------------------------------------
\* C10
\* ------------------------------------------------------------------------

\* the ambient environment with the env argument laid over it
Overlaid(ambient, env) ==
    IF env.given
    THEN [k \in DOMAIN ambient \cup DOMAIN env.dict |->
            IF k \in DOMAIN env.dict THEN env.dict[k] ELSE ambient[k]]
    ELSE ambient

SshWithIdRsa ==
    <<"s", "s", "h", " ", "-", "i", " ", "~", "/", ".", "s", "s", "h", "/", "i",
      "d", "_", "r", "s", "a", " ", "-", "o", " ", "S", "t", "r", "i", "c", "t",
      "H", "o", "s", "t", "K", "e", "y", "C", "h", "e", "c", "k", "i", "n", "g",
      "=", "n", "o">>

\* C10: in every command of every operation, an executor with an SSH key
\* path sets GIT_SSH_COMMAND to ssh -i <key path> -o StrictHostKeyChecking=no
\* over whatever the ambient environment and the env argument say, and leaves
\* the other variables as the ambient environment overlaid with env has them;
\* without a key path the environment is exactly that overlay.  No operation
\* changes base_path or ssh_key_path.
C10_SshEnvironment ==
    [][ /\ base_path' = base_path
        /\ ssh_key_path' = ssh_key_path
        /\ \A i \in 1..Len(calls') :
              LET e == calls'[i].env
                  o == Overlaid(environ, op'.env)
              IN IF Given(ssh_key_path)
                 THEN /\ DOMAIN e = DOMAIN o \cup {"GIT_SSH_COMMAND"}
                      /\ e["GIT_SSH_COMMAND"]
                           = <<"s", "s", "h", " ", "-", "i", " ">> \o ssh_key_path
                             \o <<" ", "-", "o", " ", "S", "t", "r", "i", "c", "t",
                                  "H", "o", "s", "t", "K", "e", "y", "C", "h", "e",
                                  "c", "k", "i", "n", "g", "=", "n", "o">>
                      /\ ssh_key_path = KeyPath => e["GIT_SSH_COMMAND"] = SshWithIdRsa
                      /\ \A k \in DOMAIN o \ {"GIT_SSH_COMMAND"} : e[k] = o[k]
                 ELSE e = o ]_vars

\* C10 witness: an executor with a key path has run a command although the
\* ambient environment and the env argument both set a GIT_SSH_COMMAND.
C10_Witness ==
    /\ Given(ssh_key_path)
    /\ "GIT_SSH_COMMAND" \in DOMAIN environ
    /\ op.env.given
    /\ "GIT_SSH_COMMAND" \in DOMAIN op.env.dict
    /\ Len(calls) = 1
    /\ calls[1].env["GIT_SSH_COMMAND"] = SshWithIdRsa

====
